---- MODULE Spec2Model ----
(***************************************************************************)
(* Model of src/option_flows.py (class HeatMap): the paginated retrieval   *)
(* of option trades (get_data) and the block-trade aggregation             *)
(* (clean_data and the pivot of plot_data).                                *)
(*                                                                         *)
(* Time.  A datetime has a finer resolution than the millisecond trade     *)
(* timestamps of the exchange; datetimes are counted in ticks, with        *)
(* TicksPerMs ticks to the millisecond.  Trade timestamps are integers in  *)
(* milliseconds.                                                           *)
(***************************************************************************)
EXTENDS Integers, Sequences, FiniteSets

\* ---------------------------------------------------------------- bounds
MaxTrades == 4      \* trades in the exchange's history
MaxTime == 3        \* largest trade timestamp, in ms
TicksPerMs == 2     \* datetime resolution: ticks per millisecond
MaxLookback == 4    \* largest lookback window, in ticks
MaxPageSize == 2    \* largest page cap of the endpoint (count=...)
MaxTz == 1          \* largest |UTC offset| of the local time zone, in ms
MaxRequests == 4    \* page requests followed before the model stops looking
MaxRows == 2        \* trades handed to clean_data
MaxAmount == 2      \* largest traded amount

VARIABLES
    history,          \* the exchange's trade history, oldest first
    page_size,        \* the endpoint's page cap
    lookback,         \* timedelta(hours=self.lookback_hours), in ticks
    utc_offset,       \* UTC offset of the local time zone, in ms
    end_datetime,     \* datetime.utcnow(), in ticks
    current_datetime, \* get_data's loop variable, in ticks
    collected_data,   \* get_data's list of fetched pages
    requests,         \* log of the requests issued: anchor, response kind, trades
    combined_data,    \* get_data's frame after drop_duplicates
    pc,               \* "loop" while get_data pages, then "done"
    outcome,          \* how get_data ended
    data,             \* the trades handed to clean_data
    cleaned_data,     \* what clean_data returned
    heatmap_data,     \* plot_data's pivot table
    agg_pc,           \* "clean", "pivot", then "done"
    agg_outcome       \* how the aggregation ended

fetch_vars == <<history, page_size, lookback, utc_offset, end_datetime,
                current_datetime, collected_data, requests, combined_data,
                pc, outcome>>
agg_vars == <<data, cleaned_data, heatmap_data, agg_pc, agg_outcome>>
vars == <<fetch_vars, agg_vars>>

\* ------------------------------------------------------- sequence helpers
RECURSIVE Reverse(_)
Reverse(s) == IF s = <<>> THEN <<>> ELSE Reverse(Tail(s)) \o <<Head(s)>>

Take(s, n) == SubSeq(s, 1, IF Len(s) < n THEN Len(s) ELSE n)

Max(S) == CHOOSE x \in S : \A y \in S : y <= x

RECURSIVE Flatten(_)
Flatten(ss) == IF ss = <<>> THEN <<>> ELSE Head(ss) \o Flatten(Tail(ss))

\* ------------------------------------------------------------ conversions
\* pd.to_datetime(ms, unit='ms'): a millisecond timestamp as a datetime
to_datetime(ms) == ms * TicksPerMs

\* int(dt.timestamp() * 1000) of a naive datetime.datetime: the standard
\* library reads a naive datetime as local time, so the value of utcnow()
\* comes out shifted by the local UTC offset; the sub-millisecond part is cut.
unix_timestamp_of_datetime(dt) == (dt - utc_offset * TicksPerMs) \div TicksPerMs

\* int(ts.timestamp() * 1000) of a naive pandas Timestamp: read as UTC
unix_timestamp_of_Timestamp(ts) == ts \div TicksPerMs

start_datetime == end_datetime - lookback
end_timestamp_unix == unix_timestamp_of_datetime(end_datetime)

\* ------------------------------------------------------------ the endpoint
\* get_last_trades_by_currency(end_timestamp, count), the request _get_url
\* builds: the newest trades at or before the anchor, newest first (the code
\* reads the last element as the oldest), at most page_size of them.  The
\* history is held oldest first, trades of one millisecond in the order the
\* endpoint lists them, and a trade's trade_id is its place in it.
TradesAtOrBefore(anchor) == SelectSeq(history, LAMBDA t : t.timestamp <= anchor)
Page(anchor) == Take(Reverse(TradesAtOrBefore(anchor)), page_size)

\* ------------------------------------------------------- get_data, the tail
\* pd.DataFrame(trades_data) with the timestamp column converted; `fetched`
\* is the number of the request that delivered this copy of the record
AsFrame(trades_data, n) ==
    [i \in 1..Len(trades_data) |->
        [trade_id |-> trades_data[i].trade_id,
         timestamp |-> to_datetime(trades_data[i].timestamp),
         fetched |-> n]]

\* the merge with keep="first": the copy of the earliest page survives
KeepFirst(rows) ==
    LET keep(i) == \A j \in 1..(i - 1) : rows[j].trade_id # rows[i].trade_id
        RECURSIVE go(_)
        go(i) == IF i > Len(rows) THEN <<>>
                 ELSE (IF keep(i) THEN <<rows[i]>> ELSE <<>>) \o go(i + 1)
    IN go(1)

\* line 93: drop_duplicates(subset='trade_id', keep="last")
drop_duplicates(rows) ==
    LET keep(i) == \A j \in (i + 1)..Len(rows) : rows[j].trade_id # rows[i].trade_id
        RECURSIVE go(_)
        go(i) == IF i > Len(rows) THEN <<>>
                 ELSE (IF keep(i) THEN <<rows[i]>> ELSE <<>>) \o go(i + 1)
    IN go(1)

\* the filter without its test against start_datetime
FilterNoLowerBound(rows) ==
    SelectSeq(rows, LAMBDA r : r.timestamp <= end_datetime)

\* line 96: combined_data[(timestamp >= start_datetime) & (timestamp <= end_datetime)]
filter_lookback(rows) ==
    SelectSeq(rows, LAMBDA r : r.timestamp >= start_datetime
                               /\ r.timestamp <= end_datetime)

\* sort_values(by='timestamp'), as an insertion sort
RECURSIVE sort_values(_)
sort_values(rows) ==
    IF rows = <<>> THEN <<>>
    ELSE LET rest == sort_values(Tail(rows))
             h == Head(rows)
             before == SelectSeq(rest, LAMBDA r : r.timestamp < h.timestamp)
             after == SelectSeq(rest, LAMBDA r : r.timestamp >= h.timestamp)
         IN before \o <<h>> \o after

\* lines 90-99: what get_data does once the loop is left with pages `pages`.
\* pd.concat of an empty list raises ValueError.
Finish(pages) ==
    IF pages = <<>>
    THEN /\ combined_data' = <<>>
         /\ outcome' = [kind |-> "raised", error |-> "ValueError", data |-> <<>>]
    ELSE /\ combined_data' = drop_duplicates(Flatten(pages))
         /\ outcome' = [kind |-> "returned", error |-> "",
                        data |-> sort_values(filter_lookback(combined_data'))]

\* ------------------------------------------------------- get_data, the loop
\* line 71: the anchor of the next request
api_timestamp ==
    IF collected_data = <<>> THEN end_timestamp_unix
    ELSE unix_timestamp_of_Timestamp(current_datetime)

Looping ==
    /\ pc = "loop"
    /\ Len(requests) < MaxRequests

Log(kind, n) ==
    Append(requests, [anchor |-> api_timestamp, response |-> kind, count |-> n])

\* line 74/75: requests.get or response.json() raises; nothing catches it
RequestRaises ==
    /\ Looping
    /\ requests' = Log("exception", 0)
    /\ pc' = "done"
    /\ outcome' = [kind |-> "raised", error |-> "RequestException", data |-> <<>>]
    /\ UNCHANGED <<history, page_size, lookback, utc_offset, end_datetime,
                   current_datetime, collected_data, combined_data, agg_vars>>

\* line 75-79: the body decodes but holds no 'result' (an error reply):
\* .get('result', {}).get('trades', []) is [], and the loop breaks
RequestNoResult ==
    /\ Looping
    /\ requests' = Log("no_result", 0)
    /\ pc' = "done"
    /\ Finish(collected_data)
    /\ UNCHANGED <<history, page_size, lookback, utc_offset, end_datetime,
                   current_datetime, collected_data, agg_vars>>

\* line 74-88 and the loop test of line 69: a page of trades is answered
RequestTrades ==
    /\ Looping
    /\ LET trades_data == Page(api_timestamp)
           n == Len(requests) + 1
       IN /\ requests' = Log("trades", Len(trades_data))
          /\ IF trades_data = <<>>
             THEN /\ pc' = "done"
                  /\ Finish(collected_data)
                  /\ UNCHANGED <<current_datetime, collected_data>>
             ELSE /\ current_datetime' =
                        to_datetime(trades_data[Len(trades_data)].timestamp)
                  /\ collected_data' = Append(collected_data, AsFrame(trades_data, n))
                  /\ IF current_datetime' >= start_datetime
                     THEN /\ pc' = "loop"
                          /\ UNCHANGED <<combined_data, outcome>>
                     ELSE /\ pc' = "done"
                          /\ Finish(collected_data')
    /\ UNCHANGED <<history, page_size, lookback, utc_offset, end_datetime, agg_vars>>

\* --------------------------------------------------------------- clean_data
\* An instrument_name is held as the fields str.split("-") cuts it into.
Instruments ==
    { <<"BTC", "28JUN24", "50000", "C">>,
      <<"BTC", "28JUN24", "50000.5", "C">>,
      <<"BTC", "28JUN24", "60000", "P">>,
      <<"BTC", "5JUL24", "50000", "C">>,
      <<"BTC", "28JUN24", "C">>,
      <<"BTC", "28JUN24", "50000", "C", "X">>,
      <<"BTC", "XXJUN24", "50000", "C">>,
      <<"BTC", "28JUN24", "abc", "C">> }

\* a trade without the block_trade_id key
NoBlock == "<absent>"
BlockIds == {NoBlock, "b1", "NAN"}

\* pd.to_datetime of a maturity field: the date as yyyymmdd
DateTokens == {"28JUN24", "5JUL24"}
ParseDate(tok) == IF tok = "28JUN24" THEN 20240628 ELSE 20240705

\* astype(float) of a strike field, in halves; astype(int) cuts the fraction
FloatTokens == {"50000", "50000.5", "60000"}
ParseFloat(tok) ==
    IF tok = "50000" THEN 100000 ELSE IF tok = "50000.5" THEN 100001 ELSE 120000
FloatToInt(halves) == halves \div 2

\* line 109: the number of columns str.split(expand=True) gives
SplitColumns(rows) ==
    IF rows = <<>> THEN 0 ELSE Max({Len(rows[i].instrument_name) : i \in DOMAIN rows})

\* a field of a row, None where the row has fewer fields
None == "<None>"
Field(r, k) == IF k <= Len(r.instrument_name) THEN r.instrument_name[k] ELSE None

\* line 113: pd.to_datetime raises on a field it cannot parse; None is NaT
DatesParse(rows) ==
    \A i \in DOMAIN rows : Field(rows[i], 2) \in DateTokens \cup {None}

\* line 114: astype(float) raises on a non-number, astype(int) on the NaN of None
StrikesParse(rows) == \A i \in DOMAIN rows : Field(rows[i], 3) \in FloatTokens

\* pd.DataFrame holds a block_trade_id column when some record has the key
HasBlockColumn(rows) == \E i \in DOMAIN rows : rows[i].block_trade_id # NoBlock

\* lines 119-121: np.where(direction == 'sell', -1, 1) * amount
net_amount(r) == (IF r.direction = "sell" THEN -1 ELSE 1) * r.amount

\* lines 124-125: fillna('NAN'), then block_trades = (block_trade_id != 'NAN')
fillna(b) == IF b = NoBlock THEN "NAN" ELSE b
block_trades(r) == IF fillna(r.block_trade_id) # "NAN" THEN 1 ELSE 0

\* line 128: sort_values("maturity"), as an insertion sort
RECURSIVE sort_maturity(_)
sort_maturity(rows) ==
    IF rows = <<>> THEN <<>>
    ELSE LET rest == sort_maturity(Tail(rows))
             h == Head(rows)
             before == SelectSeq(rest, LAMBDA r : r.maturity < h.maturity)
             after == SelectSeq(rest, LAMBDA r : r.maturity >= h.maturity)
         IN before \o <<h>> \o after

\* lines 117-134 on rows that parsed: the merged frame, block trades only.
\* The timestamp column is carried through unread and is left out.
Cleaned(rows) ==
    LET merged == [i \in DOMAIN rows |->
                     [maturity |-> ParseDate(Field(rows[i], 2)),
                      strike |-> FloatToInt(ParseFloat(Field(rows[i], 3))),
                      net_amount |-> net_amount(rows[i]),
                      block_trades |-> block_trades(rows[i])]]
        kept == SelectSeq(sort_maturity(merged), LAMBDA r : r.block_trades = 1)
    IN [i \in DOMAIN kept |->
          [maturity |-> kept[i].maturity, strike |-> kept[i].strike,
           net_amount |-> kept[i].net_amount]]

AggRunning == [kind |-> "running", error |-> "", line |-> 0]
Raised(err, ln) == [kind |-> "raised", error |-> err, line |-> ln]

\* clean_data, lines 108-134
clean_data ==
    /\ agg_pc = "clean"
    /\ IF SplitColumns(data) # 4 THEN
            /\ agg_outcome' = Raised("ValueError", 110)
            /\ agg_pc' = "done"
            /\ UNCHANGED cleaned_data
       ELSE IF ~DatesParse(data) THEN
            /\ agg_outcome' = Raised("ValueError", 113)
            /\ agg_pc' = "done"
            /\ UNCHANGED cleaned_data
       ELSE IF ~StrikesParse(data) THEN
            /\ agg_outcome' = Raised("ValueError", 114)
            /\ agg_pc' = "done"
            /\ UNCHANGED cleaned_data
       ELSE IF ~HasBlockColumn(data) THEN
            /\ agg_outcome' = Raised("KeyError", 124)
            /\ agg_pc' = "done"
            /\ UNCHANGED cleaned_data
       ELSE /\ cleaned_data' = Cleaned(data)
            /\ agg_pc' = "pivot"
            /\ UNCHANGED agg_outcome
    /\ UNCHANGED <<data, heatmap_data, fetch_vars>>

\* ------------------------------------------------------ plot_data, the pivot
RECURSIVE SumNet(_)
SumNet(rows) == IF rows = <<>> THEN 0 ELSE Head(rows).net_amount + SumNet(Tail(rows))

NaN == [nan |-> TRUE, value |-> 0]
Value(v) == [nan |-> FALSE, value |-> v]

\* lines 147-153: pd.pivot_table(values='net_amount', index=['maturity'],
\* columns=['strike'], aggfunc=np.sum); a cell no row falls in is NaN
pivot_table(rows) ==
    LET index == {rows[i].maturity : i \in DOMAIN rows}
        columns == {rows[i].strike : i \in DOMAIN rows}
    IN [c \in index \X columns |->
          LET cell == SelectSeq(rows, LAMBDA r : r.maturity = c[1] /\ r.strike = c[2])
          IN IF cell = <<>> THEN NaN ELSE Value(SumNet(cell))]

\* plot_data, lines 143-153: timestamp.min() of an empty frame is NaT, and
\* NaT.strftime raises ValueError
plot_data ==
    /\ agg_pc = "pivot"
    /\ agg_pc' = "done"
    /\ IF cleaned_data = <<>>
       THEN /\ agg_outcome' = Raised("ValueError", 143)
            /\ UNCHANGED heatmap_data
       ELSE /\ heatmap_data' = pivot_table(cleaned_data)
            /\ agg_outcome' = [kind |-> "matrix", error |-> "", line |-> 153]
    /\ UNCHANGED <<data, cleaned_data, fetch_vars>>

\* ------------------------------------------------------------ specification
Timestamps ==
    {h \in UNION {[1..n -> 0..MaxTime] : n \in 0..MaxTrades} :
        \A i \in 1..(Len(h) - 1) : h[i] <= h[i + 1]}

Histories ==
    {[i \in 1..Len(h) |-> [trade_id |-> i, timestamp |-> h[i]]] : h \in Timestamps}

Running == [kind |-> "running", error |-> "", data |-> <<>>]

FetchInit ==
    /\ history \in Histories
    /\ page_size \in 1..MaxPageSize
    /\ lookback \in 1..MaxLookback
    /\ utc_offset \in (-MaxTz)..MaxTz
    /\ end_datetime \in (MaxTz * TicksPerMs)..(MaxTime * TicksPerMs + 1)
    /\ current_datetime = end_datetime
    /\ collected_data = <<>>
    /\ requests = <<>>
    /\ combined_data = <<>>
    /\ pc = "loop"
    /\ outcome = Running
    /\ data = <<>>
    /\ cleaned_data = <<>>
    /\ heatmap_data = <<>>
    /\ agg_pc = "idle"
    /\ agg_outcome = AggRunning

FetchNext == RequestRaises \/ RequestNoResult \/ RequestTrades

FetchSpec == FetchInit /\ [][FetchNext]_vars

Trades ==
    [instrument_name : Instruments, direction : {"buy", "sell"},
     amount : 1..MaxAmount, block_trade_id : BlockIds]

AggInit ==
    /\ data \in UNION {[1..n -> Trades] : n \in 0..MaxRows}
    /\ cleaned_data = <<>>
    /\ heatmap_data = <<>>
    /\ agg_pc = "clean"
    /\ agg_outcome = AggRunning
    /\ history = <<>>
    /\ page_size = 1
    /\ lookback = 1
    /\ utc_offset = 0
    /\ end_datetime = 0
    /\ current_datetime = 0
    /\ collected_data = <<>>
    /\ requests = <<>>
    /\ combined_data = <<>>
    /\ pc = "idle"
    /\ outcome = Running

AggNext == clean_data \/ plot_data

AggSpec == AggInit /\ [][AggNext]_vars

\* ------------------------------------------------------- claims on get_data
Returned == outcome.kind = "returned"
Rows(rows) == {rows[i] : i \in DOMAIN rows}
InWindow(t) == t >= start_datetime /\ t <= end_datetime

\* C1: every trade get_data returns has its timestamp in the closed interval
\* [now - lookback, now], whichever pages it was fetched in.
C1_ResultInsideWindow ==
    Returned => \A r \in Rows(outcome.data) : InWindow(r.timestamp)

\* a run that returned trades and dropped a fetched trade older than start
C1_Witness ==
    /\ Returned
    /\ outcome.data # <<>>
    /\ Len(collected_data) >= 2
    /\ \E r \in Rows(combined_data) : r.timestamp < start_datetime

\* C2: after the merge every fetched trade_id is in the deduplicated working
\* set exactly once, and the surviving copy is the one of the latest page
\* that delivered it.
C2_OneCopyLastWins ==
    Returned =>
        LET fetched == Rows(Flatten(collected_data))
        IN /\ \A r \in Rows(combined_data) : r \in fetched
           /\ \A f \in fetched :
                LET at == {i \in DOMAIN combined_data :
                              combined_data[i].trade_id = f.trade_id}
                    last == Max({g.fetched : g \in {x \in fetched :
                                                      x.trade_id = f.trade_id}})
                IN /\ Cardinality(at) = 1
                   /\ \A i \in at : combined_data[i].fetched = last

\* a merge in which one trade_id was delivered by two pages
C2_Witness ==
    /\ Returned
    /\ \E f, g \in Rows(Flatten(collected_data)) :
          f.trade_id = g.trade_id /\ f.fetched # g.fetched

\* C3: a page of zero trades ends get_data without error, on whichever
\* request it occurs: no further request, and the pages so far are returned
\* (the empty sequence when there are none).
C3_EmptyPageEndsWithoutError ==
    \A i \in DOMAIN requests :
        (requests[i].response = "trades" /\ requests[i].count = 0) =>
            /\ i = Len(requests)
            /\ pc = "done"
            /\ Returned
            /\ (collected_data = <<>> => outcome.data = <<>>)

\* C4: after a failed page request get_data never returns a normal result,
\* also when the failure is a reply without 'result'/'trades'.
Failed(r) == r.response \in {"exception", "no_result"}

C4_NoResultAfterFailure ==
    (\E i \in DOMAIN requests : Failed(requests[i])) => ~Returned

\* C9: whenever get_data returns, every trade of the history whose timestamp
\* is in [start, end] is in the result.
C9_ResultComplete ==
    Returned =>
        \A i \in DOMAIN history :
            InWindow(to_datetime(history[i].timestamp)) =>
                \E r \in Rows(outcome.data) : r.trade_id = history[i].trade_id

\* C10: each request after the first is anchored strictly earlier than the
\* one before it (so that get_data ends after finitely many requests).
C10_AnchorsStrictlyBackward ==
    \A i \in 1..(Len(requests) - 1) : requests[i + 1].anchor < requests[i].anchor

\* ---------------------------------------------------- claims on aggregation
\* an instrument_name that decodes: four fields, a date, a number
Decodable(name) ==
    Len(name) = 4 /\ name[2] \in DateTokens /\ name[3] \in FloatTokens
MaturityOf(name) == ParseDate(name[2])
StrikeOf(name) == FloatToInt(ParseFloat(name[3]))

\* a block trade: the record carries a block_trade_id
IsBlock(r) == r.block_trade_id # NoBlock
AllDecodable == \A i \in DOMAIN data : Decodable(data[i].instrument_name)

RECURSIVE SignedSum(_)
SignedSum(rows) ==
    IF rows = <<>> THEN 0
    ELSE (IF Head(rows).direction = "buy" THEN Head(rows).amount
          ELSE -Head(rows).amount) + SignedSum(Tail(rows))

Contributing(m, k) ==
    SelectSeq(data, LAMBDA r : /\ IsBlock(r)
                               /\ Decodable(r.instrument_name)
                               /\ MaturityOf(r.instrument_name) = m
                               /\ StrikeOf(r.instrument_name) = k)

CleanRaised == agg_outcome.kind = "raised" /\ agg_outcome.line <= 134

\* C5: in the aggregate matrix the net_amount of each (maturity, strike) cell
\* is the sum over exactly the block trades decoding to that cell of +amount
\* for buy and -amount for sell; a cell without such a trade is empty; every
\* block trade has its cell.
C5_CellIsSignedSum ==
    agg_outcome.kind = "matrix" =>
        /\ \A c \in DOMAIN heatmap_data :
              IF Contributing(c[1], c[2]) = <<>>
              THEN heatmap_data[c].nan
              ELSE heatmap_data[c] = Value(SignedSum(Contributing(c[1], c[2])))
        /\ \A i \in DOMAIN data :
              (IsBlock(data[i]) /\ Decodable(data[i].instrument_name)) =>
                  <<MaturityOf(data[i].instrument_name),
                    StrikeOf(data[i].instrument_name)>> \in DOMAIN heatmap_data

\* C6: presence of block_trade_id is the sole inclusion predicate: of trades
\* that all decode, clean_data keeps exactly those carrying the field, whatever
\* its value, and keeps none (without failing) when no trade carries it.
C6_BlockPresenceDecides ==
    (agg_pc \in {"pivot", "done"} /\ data # <<>> /\ AllDecodable) =>
        /\ ~CleanRaised
        /\ Len(cleaned_data) = Len(SelectSeq(data, IsBlock))

\* C7: a trade whose instrument_name cannot be decoded never aborts the
\* aggregation: it is skipped and the other trades are cleaned as if it were
\* absent.
C7_MalformedIsSkipped ==
    (/\ agg_pc \in {"pivot", "done"}
     /\ \E i \in DOMAIN data : ~Decodable(data[i].instrument_name)
     /\ \E i \in DOMAIN data : Decodable(data[i].instrument_name)
     /\ \E i \in DOMAIN data : IsBlock(data[i])) =>
        /\ ~CleanRaised
        /\ cleaned_data =
              Cleaned(SelectSeq(data, LAMBDA r : Decodable(r.instrument_name)))

\* C8: when no trade is left after the block-trade filter (no input, or no
\* block trade in it), the aggregation ends with an empty matrix, not an error.
C8_NothingLeftGivesEmptyMatrix ==
    (/\ agg_pc = "done"
     /\ AllDecodable
     /\ \A i \in DOMAIN data : ~IsBlock(data[i])) =>
        /\ agg_outcome.kind = "matrix"
        /\ DOMAIN heatmap_data = {}
====
